---- MODULE Spec2Model ----
(***************************************************************************)
(* Model of the Paper record (papers/paper.py) and of the add command      *)
(* (pubs/commands/add_cmd.py).                                             *)
(*                                                                         *)
(* Text is a sequence of Unicode code points, so that str2citekey is       *)
(* computed character by character as the code computes it.  A Python      *)
(* value that may be None is a record with an isNone flag.                 *)
(*                                                                         *)
(* Specifications: Spec, the add command; SpecPaper, the construction of   *)
(* Papers and their citekeys; SpecDoc, the document, the notes and the     *)
(* files of a Paper; SpecExtract, the document named in the entry;         *)
(* SpecBatch, the loading of many Papers; SpecSanitize, the sanitizer.     *)
(***************************************************************************)
EXTENDS Integers, Sequences, FiniteSets, TLC

(***************************************************************************)
(* Bounds of the model.                                                    *)
(***************************************************************************)
\* longest citekey text that is enumerated character by character
MaxKeyLen == 2
\* number of Paper objects the record machine keeps alive
MaxPapers == 2
\* the openings of the editor are counted up to this number
MaxEdits == 2

(***************************************************************************)
(* Python values.                                                          *)
(***************************************************************************)
None == [isNone |-> TRUE, s |-> <<>>]
Str(s) == [isNone |-> FALSE, s |-> s]
\* True and False
Bool(b) == [isNone |-> FALSE, b |-> b]
\* unicode(x): the text of a value; unicode(None) is the text "None"
unicode(x) == IF x.isNone THEN <<78, 111, 110, 101>> ELSE x.s
\* an optional value of the command line or of a helper that is plain text
NONE == "None"

RECURSIVE Concat(_)
Concat(ss) == IF ss = <<>> THEN <<>> ELSE Head(ss) \o Concat(Tail(ss))

RECURSIVE Filter(_, _)
Filter(s, keep) ==
    IF s = <<>> THEN <<>>
    ELSE (IF Head(s) \in keep THEN <<Head(s)>> ELSE <<>>) \o Filter(Tail(s), keep)

RECURSIVE Remove(_, _)
Remove(s, drop) ==
    IF s = <<>> THEN <<>>
    ELSE (IF Head(s) \in drop THEN <<>> ELSE <<Head(s)>>) \o Remove(Tail(s), drop)

\* s.split(sep): the pieces of s between the occurrences of sep
RECURSIVE SplitFrom(_, _, _)
SplitFrom(s, sep, piece) ==
    IF s = <<>> THEN <<piece>>
    ELSE IF Head(s) = sep THEN <<piece>> \o SplitFrom(Tail(s), sep, <<>>)
    ELSE SplitFrom(Tail(s), sep, Append(piece, Head(s)))

Split(s, sep) == SplitFrom(s, sep, <<>>)

Range(f) == {f[i] : i \in DOMAIN f}

RECURSIVE StringsUpTo(_, _)
StringsUpTo(alphabet, n) ==
    IF n = 0 THEN {<<>>}
    ELSE LET shorter == StringsUpTo(alphabet, n - 1)
         IN  shorter \cup {Append(s, c) : s \in shorter, c \in alphabet}

(***************************************************************************)
(* Citekey sanitizer: papers/paper.py, lines 12-30.                        *)
(***************************************************************************)
DEFAULT_TYPE == "article"

CONTROL_CHARS == (0 .. 31) \cup (127 .. 159)

\* @ ' \ , # } { ~ % /
CITEKEY_FORBIDDEN_CHARS == {64, 39, 92, 44, 35, 125, 123, 126, 37, 47}

\* the character class of CITEKEY_EXCLUDE_RE
CITEKEY_EXCLUDE_RE == CONTROL_CHARS \cup CITEKEY_FORBIDDEN_CHARS

\* unicodedata.normalize('NFKD', .) on one character, for the characters of
\* the model: e-acute and a-acute decompose into the letter and a combining
\* accent, the ligature fi into f and i, the fullwidth commercial at into the
\* ASCII @; every other character of the model is its own decomposition.
NFKDChar(c) ==
    CASE c = 233   -> <<101, 769>>
      [] c = 225   -> <<97, 769>>
      [] c = 64257 -> <<102, 105>>
      [] c = 65312 -> <<64>>
      [] OTHER     -> <<c>>

RECURSIVE NFKD(_)
NFKD(s) == IF s = <<>> THEN <<>> ELSE NFKDChar(Head(s)) \o NFKD(Tail(s))

\* .encode('ascii', 'ignore'): characters above 127 are dropped
EncodeAsciiIgnore(s) == Filter(s, 0 .. 127)

str2citekey(x) ==
    LET key == EncodeAsciiIgnore(NFKD(unicode(x)))
    IN  Remove(key, CITEKEY_EXCLUDE_RE)

(***************************************************************************)
(* Bibliographic entries (pybtex Entry): a type, the fields and the        *)
(* persons of each role.  fields and persons are functions whose domain    *)
(* holds the keys that are present.                                        *)
(***************************************************************************)
Entry(type) == [isNone |-> FALSE, type |-> type, persons |-> <<>>, fields |-> <<>>]

\* bibentry = None
NoEntry == [isNone |-> TRUE, type |-> "", persons |-> <<>>, fields |-> <<>>]

(***************************************************************************)
(* Paper: papers/paper.py, lines 18-23 and 37-55.                          *)
(***************************************************************************)
\* the identity of the list object that line 22 creates; a metadata record
\* holds its notes by the identity of their list, whose contents are in lists
BASE_NOTES == 0

BASE_META == [filename |-> None, extension |-> None, path |-> None, notes |-> BASE_NOTES]

NoMeta == [isNone |-> TRUE]

\* BASE_META.copy(): a new record of the same four values, the notes list
\* of BASE_META itself among them
create_meta == BASE_META

\* the outcome of a call: exc = "" when it returns val, else the exception
Returns(v) == [exc |-> "", val |-> v]
Raises(e) == [exc |-> e, val |-> None]

PaperInitNoCheck(bibentry, metadata, citekey) ==
    Returns([bibentry |-> IF bibentry.isNone THEN Entry(DEFAULT_TYPE) ELSE bibentry,
             metadata |-> IF metadata = NoMeta THEN create_meta ELSE metadata,
             citekey  |-> citekey])

\* Paper.__init__
PaperInit(bibentry, metadata, citekey) ==
    IF unicode(citekey) # str2citekey(citekey)
    THEN Raises("ValueError")
    ELSE Returns([bibentry |-> IF bibentry.isNone THEN Entry(DEFAULT_TYPE) ELSE bibentry,
                  metadata |-> IF metadata = NoMeta THEN create_meta ELSE metadata,
                  citekey  |-> citekey])

\* Paper.generate_citekey, on the entry of the Paper
generate_citekey(bibentry) ==
    LET author_key == IF "author" \notin DOMAIN bibentry.persons
                      THEN "editor" ELSE "author"
    IN  IF author_key \notin DOMAIN bibentry.persons
        THEN Raises("ValueError")      \* KeyError, turned into ValueError
        ELSE IF bibentry.persons[author_key] = <<>>
        THEN Raises("IndexError")      \* [0] of an empty list: not caught
        ELSE LET first_author == bibentry.persons[author_key][1]
                 year == IF "year" \in DOMAIN bibentry.fields
                         THEN bibentry.fields["year"] ELSE <<>>
             IN  Returns(str2citekey(Str(Concat(first_author.last) \o year)))

\* the first non-empty piece of a split, or its last piece when all are empty
\* (papers/paper.py, lines 139-141: f keeps the value of the last iteration)
RECURSIVE FirstNonEmpty(_)
FirstNonEmpty(pieces) ==
    IF Len(pieces) = 1 \/ Len(Head(pieces)) > 0 THEN Head(pieces)
    ELSE FirstNonEmpty(Tail(pieces))

WithoutField(bibentry, name) ==
    [bibentry EXCEPT !.fields =
        [k \in (DOMAIN bibentry.fields) \ {name} |-> bibentry.fields[k]]]

\* Paper.get_document_file_from_bibdata: the outcome and the entry after the call
get_document_file_from_bibdata(bibentry, remove) ==
    IF "file" \notin DOMAIN bibentry.fields
    THEN [exc |-> "NoDocumentFile", val |-> None, bibentry |-> bibentry]
    ELSE LET field == bibentry.fields["file"]
             f == FirstNonEmpty(Split(field, 58))
             after == IF remove THEN WithoutField(bibentry, "file") ELSE bibentry
         IN  IF f = <<>>
             THEN [exc |-> "NoDocumentFile", val |-> None, bibentry |-> after]
             ELSE [exc |-> "", bibentry |-> after,
                   val |-> Str(IF f[1] # 47 THEN <<47>> \o f ELSE f)]

(***************************************************************************)
(* Collaborators of the add command whose code is outside the two source   *)
(* files: the codec, the repository, bibstruct and content.                *)
(***************************************************************************)
\* templates.add_bib, garbage, and the text that encodes an entry
add_bib == [kind |-> "template", entry |-> NoEntry]
Garbage == [kind |-> "garbage", entry |-> NoEntry]
BibText(e) == [kind |-> "bib", entry |-> e]

\* rp.databroker.verify: the decoded entry, or None when the text cannot be
\* decoded (the None that lines 92, 99 and 107 of add_cmd.py test)
verify(bibdata_raw) ==
    IF bibdata_raw.kind = "bib" THEN bibdata_raw.entry ELSE NoEntry

\* bibstruct.verify_bibdata: the structural verification; an entry that
\* fails it is a decoding failure (the except clause of line 60)
verify_bibdata(bibentry) ==
    IF bibentry.isNone \/ "year" \notin DOMAIN bibentry.fields
    THEN Raises("BibDecodingError") ELSE Returns(None)

\* bibstruct.extract_citekey: the base key derived from the entry
extract_citekey(bibentry) == generate_citekey(bibentry)

\* rp.unique_citekey: the base key, or a suffixed variant when it is taken
RECURSIVE unique_citekey(_, _)
unique_citekey(base_key, keys) ==
    IF base_key \notin keys THEN base_key
    ELSE unique_citekey(Append(base_key, 97), keys)

\* Paper.from_bibentry: constructs the Paper of the entry under the citekey
from_bibentry(bibentry, citekey) == PaperInit(bibentry, NoMeta, citekey)

\* bibstruct.extract_docfile: the embedded document, or None
extract_docfile(bibentry) ==
    LET r == get_document_file_from_bibdata(bibentry, FALSE)
    IN  IF r.exc = "" THEN r.val ELSE None

\* content.content_type: 'url' for text that starts with "http://"
content_type(path) ==
    IF Len(path) >= 7 /\ SubSeq(path, 1, 7) = <<104, 116, 116, 112, 58, 47, 47>>
    THEN "url" ELSE "file"

\* ui.exit() without an argument
DEFAULT_EXIT_STATUS == 1
\* the status of a process that ends on an uncaught exception
UNCAUGHT_EXIT_STATUS == 1

(***************************************************************************)
(* Inputs of the add command.                                              *)
(***************************************************************************)
Doe == <<68, 111, 101>>
Y2021 == <<50, 48, 50, 49>>
Doe2021 == Doe \o Y2021
\* "k1": a citekey of the repository; "n1": a fresh one; "a@b": an invalid one
ExistingKey == <<107, 49>>
FreshKey == <<110, 49>>
InvalidKey == <<97, 64, 98>>
\* "/x": a local document; "http://u": a remote one
LocalDoc == <<47, 120>>
UrlDoc == <<104, 116, 116, 112, 58, 47, 47, 117>>
\* "e:f": the file field of an entry; its embedded document is "/e"
FileField == <<101, 58, 102>>
\* "t,u,t"
TagText == <<116, 44, 117, 44, 116>>

Person(last) == [last |-> last]

\* the entries a source can yield; the title tells the sources apart
\* ("F" file, "D" DOI, "I" ISBN, "E" editor)
SourceEntry(title, hasAuthor, hasYear, hasFile) ==
    [isNone  |-> FALSE,
     type    |-> DEFAULT_TYPE,
     persons |-> IF hasAuthor THEN [r \in {"author"} |-> <<Person(<<Doe>>)>>] ELSE <<>>,
     fields  |-> [k \in {"title"} \cup (IF hasYear THEN {"year"} ELSE {})
                            \cup (IF hasFile THEN {"file"} ELSE {}) |->
                    CASE k = "title" -> <<title>>
                      [] k = "year"  -> Y2021
                      [] k = "file"  -> FileField]]

SourceEntries(title) ==
    {SourceEntry(title, a, y, f) : a \in BOOLEAN, y \in BOOLEAN, f \in BOOLEAN}

RawTexts(title) == {Garbage} \cup {BibText(e) : e \in SourceEntries(title)}

EditorTexts == {add_bib} \cup RawTexts(69)

Args ==
    [bibfile : {NONE, "refs.bib"},
     doi     : {NONE, "10.1000/1"},
     isbn    : {NONE, "9780000000000"},
     docfile : {None, Str(LocalDoc), Str(UrlDoc)},
     tags    : {None, Str(TagText)},
     citekey : {None, Str(<<>>), Str(ExistingKey), Str(FreshKey), Str(InvalidKey)},
     doc_add : {NONE, "copy", "move", "link"}]

NoPaper == [isNone |-> TRUE]

VARIABLES
    pc,           \* position in command / bibentry_from_editor
    args,         \* the parsed command line
    conf,         \* conf['main']['doc_add']
    rp,           \* the repository: its citekeys, papers, documents, open flag
    fs,           \* the local files that exist
    bibentry,     \* local of command
    doi_entry,    \* what the DOI lookup decoded (history of bibentry)
    citekey,      \* local of command
    p,            \* local of command: the Paper and its tags
    docfile,      \* local of command
    doc_add,      \* local of command
    bibstr,       \* local of bibentry_from_editor
    edits,        \* how often the editor was opened, counted up to MaxEdits
    log,          \* the calls on collaborators and the ui output, in order
    exit_status,  \* -1 while the process runs
    papers,       \* record machine: the Paper objects alive
    ret,          \* record machine: the outcome of the last call
    lists,        \* the contents of the notes lists, by identity of the list
    disk          \* the regular files that exist, and the files written, in order

cmdvars == <<pc, args, conf, rp, fs, bibentry, doi_entry, citekey, p, docfile,
             doc_add, bibstr, edits, log, exit_status>>
recvars == <<papers, ret, lists, disk>>
vars == <<cmdvars, recvars>>

NoRet == [op |-> "", arg |-> None, idx |-> 0, exc |-> "", val |-> None]

CmdInit ==
    /\ pc = "start"
    /\ args \in Args
    /\ conf \in {"copy", "move", "link"}
    /\ rp \in {[keys |-> ks, papers |-> {}, docs |-> {}, open |-> TRUE] :
                  ks \in {{ExistingKey}, {ExistingKey, Doe2021}}}
    /\ fs = {LocalDoc, <<47, 101>>}
    /\ bibentry = NoEntry
    /\ doi_entry = NoEntry
    /\ citekey = None
    /\ p = NoPaper
    /\ docfile = None
    /\ doc_add = NONE
    /\ bibstr = add_bib
    /\ edits = 0
    /\ log = <<>>
    /\ exit_status = -1

\* "/w", the working directory, and the regular files of the file system:
\* "/x.p" and "/w/y"
cwd == <<47, 119>>
AbsDoc == <<47, 120, 46, 112>>
RelDoc == <<121>>
DocFiles == {AbsDoc, cwd \o <<47>> \o RelDoc}

RecIdle ==
    /\ papers = <<>>
    /\ ret = NoRet
    /\ lists = [l \in {BASE_NOTES} |-> <<>>]
    /\ disk = [files |-> DocFiles, written |-> <<>>]

Init == CmdInit /\ RecIdle

(***************************************************************************)
(* The add command: pubs/commands/add_cmd.py, command and                  *)
(* bibentry_from_editor.  One action per step between two calls on a       *)
(* collaborator.                                                           *)
(***************************************************************************)
\* ui.exit(status): the process ends
ui_exit(status, events) ==
    /\ pc' = "exited"
    /\ exit_status' = status
    /\ log' = log \o events

\* an exception nobody catches ends the process with a traceback
uncaught(exc, events) ==
    /\ pc' = "crashed"
    /\ exit_status' = UNCAUGHT_EXIT_STATUS
    /\ log' = log \o events \o <<"traceback:" \o exc>>

goto(next, events) ==
    /\ pc' = next
    /\ log' = log \o events
    /\ UNCHANGED exit_status

\* lines 92-96: where command goes after the DOI lookup
AfterDOINeverExits(entry, isbn) ==
    IF isbn # NONE THEN "isbn" ELSE "citekey"

AfterDOI(entry, isbn) ==
    IF entry.isNone /\ isbn = NONE THEN "exit"
    ELSE IF isbn # NONE THEN "isbn"
    ELSE "citekey"

\* lines 99-101: where command goes after the ISBN lookup
AfterISBN(entry) == IF entry.isNone THEN "exit" ELSE "citekey"

\* lines 48-60: where bibentry_from_editor goes with the text of the editor
EditorOutcomeNoTemplateTest(text) ==
    IF verify_bibdata(verify(text)).exc # "" THEN "ask_invalid" ELSE "citekey"

EditorOutcome(text) ==
    IF text = add_bib THEN "ask_unedited"
    ELSE IF verify_bibdata(verify(text)).exc # "" THEN "ask_invalid"
    ELSE "citekey"

\* line 116: citekey in rp
collidesNever(key, keys) == FALSE

collides(key, keys) == unicode(key) \in keys

\* lines 130-131: the document that is pushed
final_docfileEmbeddedFirst(arg_docfile, bib_docfile) ==
    IF bib_docfile.isNone THEN arg_docfile ELSE bib_docfile

final_docfile(arg_docfile, bib_docfile) ==
    IF arg_docfile.isNone THEN bib_docfile ELSE arg_docfile

\* lines 132-134: the warning
warns(arg_docfile, bib_docfile) == ~arg_docfile.isNone /\ ~bib_docfile.isNone

\* lines 137-139: the placement mode
final_doc_add(arg_doc_add, configured) ==
    IF arg_doc_add = NONE THEN configured ELSE arg_doc_add

\* line 144: copy=(doc_add in ('copy', 'move'))
copy_flag(mode) == mode \in {"copy", "move"}

\* line 145: whether the original is removed
removes_originalAlsoUrl(mode, path) == mode = "move"

removes_original(mode, path) == mode = "move" /\ content_type(path) # "url"

\* lines 85-89 and 104: which source provides the entry
SelectSource ==
    /\ pc = "start"
    /\ goto(IF args.bibfile # NONE THEN "file"
            ELSE IF args.doi = NONE /\ args.isbn = NONE THEN "editor"
            ELSE IF args.doi # NONE THEN "doi"
            ELSE "isbn", <<>>)
    /\ bibstr' = add_bib
    /\ UNCHANGED <<recvars, edits>>
    /\ UNCHANGED <<args, conf, rp, fs, bibentry, doi_entry, citekey, p, docfile, doc_add>>

\* lines 105-108: the explicit bib file
AcquireFromFile ==
    /\ pc = "file"
    /\ \E bibentry_raw \in RawTexts(70) :
          /\ bibentry' = verify(bibentry_raw)
          /\ goto("citekey",
                  <<"get_content">> \o
                  (IF bibentry'.isNone THEN <<"ui.error:bibfile">> ELSE <<>>))
    /\ UNCHANGED <<recvars, edits>>
    /\ UNCHANGED <<args, conf, rp, fs, doi_entry, citekey, p, docfile, doc_add, bibstr>>

\* lines 89-95: the DOI lookup
LookupDOI ==
    /\ pc = "doi"
    /\ \E bibentry_raw \in RawTexts(68) :
          /\ bibentry' = verify(bibentry_raw)
          /\ doi_entry' = bibentry'
          /\ LET said == <<"doi2bibtex">> \o
                         (IF bibentry'.isNone THEN <<"ui.error:doi">> ELSE <<>>)
                 next == AfterDOI(bibentry', args.isbn)
             IN  IF next = "exit" THEN ui_exit(1, said) ELSE goto(next, said)
    /\ UNCHANGED <<recvars, edits>>
    /\ UNCHANGED <<args, conf, rp, fs, citekey, p, docfile, doc_add, bibstr>>

\* lines 96-101: the ISBN lookup
LookupISBN ==
    /\ pc = "isbn"
    /\ \E bibentry_raw \in RawTexts(73) :
          /\ bibentry' = verify(bibentry_raw)
          /\ LET said == <<"isbn2bibtex">> \o
                         (IF bibentry'.isNone THEN <<"ui.error:isbn">> ELSE <<>>)
                 next == AfterISBN(bibentry')
             IN  IF next = "exit" THEN ui_exit(1, said) ELSE goto(next, said)
    /\ UNCHANGED <<recvars, edits>>
    /\ UNCHANGED <<args, conf, rp, fs, doi_entry, citekey, p, docfile, doc_add, bibstr>>

\* lines 46-48 and 55-58: the editor is opened on bibstr and its text decoded
EditorInput ==
    /\ pc = "editor"
    /\ \E text \in EditorTexts :
          /\ bibstr' = text
          /\ goto(EditorOutcome(text), <<>>)
          /\ bibentry' = IF EditorOutcome(text) = "ask_unedited"
                         THEN bibentry ELSE verify(text)
    /\ edits' = IF edits < MaxEdits THEN edits + 1 ELSE edits
    /\ UNCHANGED recvars
    /\ UNCHANGED <<args, conf, rp, fs, doi_entry, citekey, p, docfile, doc_add>>

\* lines 49-53: 'Bibfile not edited. Edit again ?'
AskUnedited ==
    /\ pc = "ask_unedited"
    /\ \E again \in BOOLEAN :
          IF again THEN goto("editor", <<>>) ELSE ui_exit(0, <<>>)
    /\ UNCHANGED <<recvars, edits>>
    /\ UNCHANGED <<args, conf, rp, fs, bibentry, doi_entry, citekey, p, docfile,
                   doc_add, bibstr>>

\* lines 60-65: 'Invalid bibfile. Edit again?'
AskInvalid ==
    /\ pc = "ask_invalid"
    /\ \E again \in BOOLEAN :
          IF again THEN goto("editor", <<>>) ELSE ui_exit(DEFAULT_EXIT_STATUS, <<>>)
    /\ UNCHANGED <<recvars, edits>>
    /\ UNCHANGED <<args, conf, rp, fs, bibentry, doi_entry, citekey, p, docfile,
                   doc_add, bibstr>>

\* lines 112-118: the citekey
ResolveCitekey ==
    /\ pc = "citekey"
    /\ IF args.citekey.isNone
       THEN LET base_key == extract_citekey(bibentry)
            IN  IF base_key.exc # ""
                THEN uncaught(base_key.exc, <<>>) /\ UNCHANGED citekey
                ELSE /\ citekey' = Str(unique_citekey(base_key.val, rp.keys))
                     /\ goto("construct", <<>>)
       ELSE IF collides(args.citekey, rp.keys)
       THEN ui_exit(1, <<"ui.error:citekey">>) /\ UNCHANGED citekey
       ELSE /\ citekey' = args.citekey
            /\ goto("construct", <<>>)
    /\ UNCHANGED <<recvars, edits>>
    /\ UNCHANGED <<args, conf, rp, fs, bibentry, doi_entry, p, docfile, doc_add, bibstr>>

\* lines 120-125: the Paper and its tags
ConstructPaper ==
    /\ pc = "construct"
    /\ LET made == from_bibentry(bibentry, citekey)
       IN  IF made.exc # ""
           THEN uncaught(made.exc, <<>>) /\ UNCHANGED p
           ELSE /\ p' = [isNone |-> FALSE, obj |-> made.val,
                         tags |-> IF args.tags.isNone THEN {}
                                  ELSE Range(Split(args.tags.s, 44))]
                /\ goto("docfile", <<>>)
    /\ UNCHANGED <<recvars, edits>>
    /\ UNCHANGED <<args, conf, rp, fs, bibentry, doi_entry, citekey, docfile, doc_add, bibstr>>

\* lines 129-139: the document and the placement mode
ResolveDocument ==
    /\ pc = "docfile"
    /\ LET bib_docfile == extract_docfile(bibentry)
       IN  /\ docfile' = final_docfile(args.docfile, bib_docfile)
           /\ goto("commit",
                   IF warns(args.docfile, bib_docfile)
                   THEN <<"ui.warning:docfile">> ELSE <<>>)
    /\ doc_add' = final_doc_add(args.doc_add, conf)
    /\ UNCHANGED <<recvars, edits>>
    /\ UNCHANGED <<args, conf, rp, fs, bibentry, doi_entry, citekey, p, bibstr>>

CommitThenAlwaysPushDoc ==
    /\ pc = "commit"
    /\ rp' = [rp EXCEPT !.keys = @ \cup {unicode(p.obj.citekey)},
                        !.papers = @ \cup {p}]
    /\ goto("push_doc", <<"push_paper", "ui.message:added">>)
    /\ UNCHANGED <<recvars, edits>>
    /\ UNCHANGED <<args, conf, fs, bibentry, doi_entry, citekey, p, docfile, doc_add, bibstr>>

\* lines 141-143: push_paper and the message
Commit ==
    /\ pc = "commit"
    /\ rp' = [rp EXCEPT !.keys = @ \cup {unicode(p.obj.citekey)},
                        !.papers = @ \cup {p}]
    /\ goto(IF docfile.isNone THEN "close" ELSE "push_doc",
            <<"push_paper", "ui.message:added">>)
    /\ UNCHANGED <<recvars, edits>>
    /\ UNCHANGED <<args, conf, fs, bibentry, doi_entry, citekey, p, docfile, doc_add, bibstr>>

\* line 144: push_doc, which returns or raises
PushDoc ==
    /\ pc = "push_doc"
    /\ \E returned \in BOOLEAN :
          IF returned
          THEN /\ rp' = [rp EXCEPT !.docs = @ \cup
                            {[citekey |-> unicode(p.obj.citekey), docfile |-> docfile.s,
                              copy |-> copy_flag(doc_add)]}]
               /\ goto("remove", <<"push_doc", "push_doc:returned">>)
          ELSE /\ uncaught("IOError", <<"push_doc">>)
               /\ UNCHANGED rp
    /\ UNCHANGED <<recvars, edits>>
    /\ UNCHANGED <<args, conf, fs, bibentry, doi_entry, citekey, p, docfile, doc_add, bibstr>>

\* lines 145-151: the original is removed after a move, and the messages
RemoveOriginal ==
    /\ pc = "remove"
    /\ LET said == IF doc_add = "move" THEN <<"ui.message:moved">>
                   ELSE IF doc_add = "copy" THEN <<"ui.message:copied">>
                   ELSE <<>>
       IN  IF removes_original(doc_add, docfile.s)
           THEN \E removed \in BOOLEAN :
                   IF removed
                   THEN /\ fs' = fs \ {docfile.s}
                        /\ goto("close", <<"remove_file">> \o said)
                   ELSE /\ uncaught("OSError", <<"remove_file">>)
                        /\ UNCHANGED fs
           ELSE /\ goto("close", said)
                /\ UNCHANGED fs
    /\ UNCHANGED <<recvars, edits>>
    /\ UNCHANGED <<args, conf, rp, bibentry, doi_entry, citekey, p, docfile, doc_add, bibstr>>

\* line 153: rp.close(), and command returns
Close ==
    /\ pc = "close"
    /\ rp' = [rp EXCEPT !.open = FALSE]
    /\ pc' = "done"
    /\ exit_status' = 0
    /\ log' = Append(log, "close")
    /\ UNCHANGED <<recvars, edits>>
    /\ UNCHANGED <<args, conf, fs, bibentry, doi_entry, citekey, p, docfile, doc_add, bibstr>>

Next ==
    \/ SelectSource
    \/ AcquireFromFile
    \/ LookupDOI
    \/ LookupISBN
    \/ EditorInput
    \/ AskUnedited
    \/ AskInvalid
    \/ ResolveCitekey
    \/ ConstructPaper
    \/ ResolveDocument
    \/ Commit
    \/ PushDoc
    \/ RemoveOriginal
    \/ Close

Spec == Init /\ [][Next]_vars

(***************************************************************************)
(* The Paper record on its own: Papers are constructed and their methods   *)
(* called, one call per step; ret holds the outcome of the last call.      *)
(***************************************************************************)
Smith == <<83, 109, 105, 116, 104>>
Y2020 == <<50, 48, 50, 48>>
\* a last name in two parts, "de" and "Sa" with an acute accent
deSa == <<(<<100, 101>>), (<<83, 225>>)>>

RecPersonLists == {<<>>, <<Person(<<Smith>>)>>, <<Person(deSa), Person(<<Smith>>)>>}

RecPersons ==
    UNION {[roles -> RecPersonLists] : roles \in SUBSET {"author", "editor"}}

RecFields == {<<>>, [k \in {"year"} |-> Y2020]}

RecEntries ==
    {NoEntry} \cup
    {[isNone |-> FALSE, type |-> DEFAULT_TYPE, persons |-> ps, fields |-> fs_] :
        ps \in RecPersons, fs_ \in RecFields}

\* "ab2020" and "a@b", and every text of a, @ and e-acute up to MaxKeyLen
RecCitekeys ==
    {None, Str(<<97, 98>> \o Y2020), Str(<<97, 64, 98>>)}
    \cup {Str(t) : t \in StringsUpTo({97, 64, 233}, MaxKeyLen)}

CmdIdle ==
    /\ pc = "idle"
    /\ args = [bibfile |-> NONE, doi |-> NONE, isbn |-> NONE, docfile |-> None,
               tags |-> None, citekey |-> None, doc_add |-> NONE]
    /\ conf = "link"
    /\ rp = [keys |-> {}, papers |-> {}, docs |-> {}, open |-> FALSE]
    /\ fs = {}
    /\ bibentry = NoEntry
    /\ doi_entry = NoEntry
    /\ citekey = None
    /\ p = NoPaper
    /\ docfile = None
    /\ doc_add = NONE
    /\ bibstr = add_bib
    /\ edits = 0
    /\ log = <<>>
    /\ exit_status = -1

\* Paper(bibentry, citekey=citekey)
Construct ==
    /\ Len(papers) < MaxPapers
    /\ \E e \in RecEntries, k \in RecCitekeys :
          LET made == PaperInit(e, NoMeta, k)
          IN  /\ ret' = [op |-> "Paper", arg |-> k, idx |-> 0,
                         exc |-> made.exc, val |-> None]
              /\ papers' = IF made.exc = "" THEN Append(papers, made.val) ELSE papers
    /\ UNCHANGED <<cmdvars, lists, disk>>

\* papers[i].generate_citekey()
GenerateCitekey ==
    /\ \E i \in DOMAIN papers :
          LET made == generate_citekey(papers[i].bibentry)
          IN  ret' = [op |-> "generate_citekey", arg |-> None, idx |-> i,
                      exc |-> made.exc,
                      val |-> IF made.exc = "" THEN Str(made.val) ELSE None]
    /\ UNCHANGED <<papers, lists, disk>>
    /\ UNCHANGED cmdvars

RecNext ==
    \/ Construct
    \/ GenerateCitekey

RecInit == CmdIdle /\ RecIdle

SpecPaper == RecInit /\ [][RecNext]_vars

(***************************************************************************)
(* The document of a Paper and its two files on disk: papers/paper.py,     *)
(* lines 72-85 and 108-125.  The operators take the metadata or the Paper  *)
(* and the state of the file system, and give the outcome of the call.     *)
(***************************************************************************)
\* the notes of one list are counted up to this number
MaxNotes == 1
\* the calls of save_to_disc that write are counted up to this number
MaxSaves == 1

\* "/m", a path where there is no file
MissingDoc == <<47, 109>>
DocPaths == {AbsDoc, RelDoc, MissingDoc}
\* "n": a note
NoteText == <<110>>

\* the position of the last occurrence of c in s, or 0
RECURSIVE LastIndex(_, _)
LastIndex(s, c) ==
    IF s = <<>> THEN 0
    ELSE IF s[Len(s)] = c THEN Len(s)
    ELSE LastIndex(SubSeq(s, 1, Len(s) - 1), c)

\* os.path.abspath: an absolute path is kept, a relative one is joined to
\* the working directory (the paths of the model have no '.', '..' or '//')
abspath(path) ==
    IF path = <<>> THEN cwd
    ELSE IF path[1] = 47 THEN path
    ELSE cwd \o <<47>> \o path

\* os.path.exists and os.path.isfile
exists(files, path) == path \in files \cup {cwd}
isfile(files, path) == path \in files

\* files.check_file: fails when there is no file at the path
files_check_file(files, path) ==
    IF isfile(files, path) THEN Returns(None) ELSE Raises("FileNotFound")

\* files.name_from_path: the name and the extension of the last component
name_from_path(path) ==
    LET base == SubSeq(path, LastIndex(path, 47) + 1, Len(path))
        dot == LastIndex(base, 46)
    IN  IF dot <= 1 THEN [name |-> base, ext |-> <<>>]
        ELSE [name |-> SubSeq(base, 1, dot - 1), ext |-> SubSeq(base, dot, Len(base))]

\* Paper.has_file
has_file(metadata) == metadata.path # None

\* Paper.get_file_path
get_file_path(metadata) ==
    IF has_file(metadata) THEN Returns(metadata.path) ELSE Raises("NoDocumentFile")

\* Paper.check_file
check_file(metadata, files) ==
    LET path == get_file_path(metadata)
    IN  IF path.exc # "" THEN [exc |-> path.exc, val |-> FALSE]
        ELSE [exc |-> "", val |-> exists(files, path.val.s) /\ isfile(files, path.val.s)]

set_documentPathFirst(metadata, files, docpath) ==
    LET fullpdfpath == abspath(docpath)
        checked == files_check_file(files, fullpdfpath)
        parts == name_from_path(docpath)
    IN  IF checked.exc # ""
        THEN [exc |-> checked.exc,
              metadata |-> [metadata EXCEPT !.path = Str(fullpdfpath)]]
        ELSE [exc |-> "",
              metadata |-> [metadata EXCEPT !.filename = Str(parts.name),
                                            !.extension = Str(parts.ext),
                                            !.path = Str(fullpdfpath)]]

\* Paper.set_document: the outcome and the metadata after the call
set_document(metadata, files, docpath) ==
    LET fullpdfpath == abspath(docpath)
        checked == files_check_file(files, fullpdfpath)
        parts == name_from_path(docpath)
    IN  IF checked.exc # ""
        THEN [exc |-> checked.exc, metadata |-> metadata]
        ELSE [exc |-> "",
              metadata |-> [metadata EXCEPT !.filename = Str(parts.name),
                                            !.extension = Str(parts.ext),
                                            !.path = Str(fullpdfpath)]]

\* Paper(citekey=k): the default entry and the default metadata
NewPaper ==
    /\ Len(papers) < MaxPapers
    /\ \E k \in {None, Str(ExistingKey)} :
          LET made == PaperInit(NoEntry, NoMeta, k)
          IN  /\ made.exc = ""
              /\ ret' = [op |-> "Paper", arg |-> k, idx |-> Len(papers) + 1,
                         exc |-> "", val |-> None]
              /\ papers' = Append(papers, made.val)
    /\ UNCHANGED <<cmdvars, lists, disk>>

\* papers[i].set_document(docpath)
SetDocument ==
    /\ \E i \in DOMAIN papers, docpath \in DocPaths :
          LET r == set_document(papers[i].metadata, disk.files, docpath)
          IN  /\ ret' = [op |-> "set_document", arg |-> Str(docpath), idx |-> i,
                         exc |-> r.exc, val |-> None]
              /\ papers' = [papers EXCEPT ![i].metadata = r.metadata]
    /\ UNCHANGED <<cmdvars, lists, disk>>

\* papers[i].has_file()
HasFile ==
    /\ \E i \in DOMAIN papers :
          ret' = [op |-> "has_file", arg |-> None, idx |-> i, exc |-> "",
                  val |-> Bool(has_file(papers[i].metadata))]
    /\ UNCHANGED <<cmdvars, papers, lists, disk>>

\* papers[i].get_file_path()
GetFilePath ==
    /\ \E i \in DOMAIN papers :
          LET r == get_file_path(papers[i].metadata)
          IN  ret' = [op |-> "get_file_path", arg |-> None, idx |-> i,
                      exc |-> r.exc, val |-> r.val]
    /\ UNCHANGED <<cmdvars, papers, lists, disk>>

\* papers[i].check_file()
CheckFile ==
    /\ \E i \in DOMAIN papers :
          LET r == check_file(papers[i].metadata, disk.files)
          IN  ret' = [op |-> "check_file", arg |-> None, idx |-> i,
                      exc |-> r.exc,
                      val |-> IF r.exc = "" THEN Bool(r.val) ELSE None]
    /\ UNCHANGED <<cmdvars, papers, lists, disk>>

\* a file of the file system is deleted by somebody else
Unlink ==
    /\ \E f \in disk.files : disk' = [disk EXCEPT !.files = @ \ {f}]
    /\ UNCHANGED <<cmdvars, papers, ret, lists>>

\* one write of files.save_bibdata or files.save_meta
Write(target, paper) == [target |-> target, citekey |-> paper.citekey]

save_to_discMetaFirst(paper, failing) ==
    IF paper.citekey = None
    THEN [exc |-> "ValueError", written |-> <<>>]
    ELSE IF failing = "save_bibdata"
    THEN [exc |-> "IOError", written |-> <<>>]
    ELSE IF failing = "save_meta"
    THEN [exc |-> "IOError", written |-> <<Write("meta_filepath", paper)>>]
    ELSE [exc |-> "",
          written |-> <<Write("meta_filepath", paper), Write("bib_filepath", paper)>>]

\* Paper.save_to_disc: the outcome and the files it wrote, in order; failing
\* names the write that raises, if one does
save_to_disc(paper, failing) ==
    IF paper.citekey = None
    THEN [exc |-> "ValueError", written |-> <<>>]
    ELSE IF failing = "save_bibdata"
    THEN [exc |-> "IOError", written |-> <<>>]
    ELSE IF failing = "save_meta"
    THEN [exc |-> "IOError", written |-> <<Write("bib_filepath", paper)>>]
    ELSE [exc |-> "",
          written |-> <<Write("bib_filepath", paper), Write("meta_filepath", paper)>>]

\* papers[i].save_to_disc(bib_filepath, meta_filepath)
SaveToDisc ==
    /\ \E i \in DOMAIN papers, failing \in {"", "save_bibdata", "save_meta"} :
          LET r == save_to_disc(papers[i], failing)
          IN  /\ Len(disk.written) + Len(r.written) <= 2 * MaxSaves
              /\ ret' = [op |-> "save_to_disc", arg |-> None, idx |-> i,
                         exc |-> r.exc, val |-> None]
              /\ disk' = [disk EXCEPT !.written = @ \o r.written]
    /\ UNCHANGED <<cmdvars, papers, lists>>

\* papers[i].metadata['notes'].append(note)
AppendNote ==
    /\ \E i \in DOMAIN papers :
          LET l == papers[i].metadata.notes
          IN  /\ Len(lists[l]) < MaxNotes
              /\ lists' = [lists EXCEPT ![l] = Append(@, NoteText)]
              /\ ret' = [op |-> "append", arg |-> Str(NoteText), idx |-> i,
                         exc |-> "", val |-> None]
    /\ UNCHANGED <<cmdvars, papers, disk>>

DocNext ==
    \/ NewPaper
    \/ SetDocument
    \/ HasFile
    \/ GetFilePath
    \/ CheckFile
    \/ Unlink
    \/ SaveToDisc
    \/ AppendNote

DocInit == CmdIdle /\ RecIdle

SpecDoc == DocInit /\ [][DocNext]_vars

(***************************************************************************)
(* The document named in the entry: papers/paper.py, lines 127-149, on a   *)
(* Paper whose entry has one of the file fields below, or none.            *)
(***************************************************************************)
\* longest file field that is enumerated character by character
MaxFieldLen == 4

\* "files/a.pdf:files/b.pdf"
TwoFiles ==
    <<102, 105, 108, 101, 115, 47, 97, 46, 112, 100, 102, 58,
      102, 105, 108, 101, 115, 47, 98, 46, 112, 100, 102>>

\* every text of ':', '/' and 'a' up to MaxFieldLen, and the two files
FileFields == StringsUpTo({58, 47, 97}, MaxFieldLen) \cup {TwoFiles}

FileEntries ==
    {Entry(DEFAULT_TYPE)} \cup
    {[Entry(DEFAULT_TYPE) EXCEPT !.fields = [k \in {"file"} |-> field]] :
        field \in FileFields}

ExtractInit ==
    /\ CmdIdle
    /\ papers \in {<<PaperInit(e, NoMeta, Str(ExistingKey)).val>> : e \in FileEntries}
    /\ ret = NoRet
    /\ lists = [l \in {BASE_NOTES} |-> <<>>]
    /\ disk = [files |-> DocFiles, written |-> <<>>]

\* papers[i].get_document_file_from_bibdata(remove)
Extract(remove) ==
    /\ \E i \in DOMAIN papers :
          LET r == get_document_file_from_bibdata(papers[i].bibentry, remove)
          IN  /\ ret' = [op |-> "get_document_file_from_bibdata", arg |-> Bool(remove),
                         idx |-> i, exc |-> r.exc, val |-> r.val]
              /\ papers' = [papers EXCEPT ![i].bibentry = r.bibentry]
    /\ UNCHANGED <<cmdvars, lists, disk>>

\* get_document_file_from_bibdata()
ExtractKeep == Extract(FALSE)

\* get_document_file_from_bibdata(remove=True)
ExtractRemove == Extract(TRUE)

ExtractNext ==
    \/ ExtractKeep
    \/ ExtractRemove

SpecExtract == ExtractInit /\ [][ExtractNext]_vars

(***************************************************************************)
(* Loading many Papers: papers/paper.py, lines 174-196.  The path is one   *)
(* file, or a directory of files; a file has its entries in the order of   *)
(* the source, each under its key.                                         *)
(***************************************************************************)
\* the entries of one file are counted up to this number
MaxBatch == 2
\* the files of a directory are counted up to this number
MaxFiles == 2

BatchKeys == {ExistingKey, InvalidKey, FreshKey}

\* the sequences of n different keys
RECURSIVE KeySeqs(_)
KeySeqs(n) ==
    IF n = 0 THEN {<<>>}
    ELSE UNION {{Append(ks, k) : k \in BatchKeys \ Range(ks)} : ks \in KeySeqs(n - 1)}

\* the entry a file holds under a key: its title is the key
Keyed(key) ==
    [key |-> key,
     entry |-> [Entry(DEFAULT_TYPE) EXCEPT !.fields = [f \in {"title"} |-> key]]]

\* b.entries of the files: bib tells whether the extension of the file is
\* one of files.BIB_EXTENSIONS
BibFiles ==
    {[bib |-> b, entries |-> [i \in DOMAIN ks |-> Keyed(ks[i])]] :
        b \in BOOLEAN, ks \in UNION {KeySeqs(n) : n \in 0 .. MaxBatch}}

BibPaths ==
    {[isdir |-> FALSE, files |-> <<f>>] : f \in BibFiles} \cup
    {[isdir |-> TRUE, files |-> fs_] :
        fs_ \in UNION {[1 .. n -> BibFiles] : n \in 0 .. MaxFiles}}

\* lines 179-184: the entries of the files that are loaded, in order
bib_data(bibpath) ==
    LET all_files == IF bibpath.isdir
                     THEN SelectSeq(bibpath.files, LAMBDA f : f.bib)
                     ELSE bibpath.files
    IN  Concat([i \in DOMAIN all_files |-> all_files[i].entries])

many_from_pathNeverSkips(bibpath, fatal) ==
    LET loaded == bib_data(bibpath)
        made == [i \in DOMAIN loaded |->
                    PaperInit(loaded[i].entry, NoMeta, Str(loaded[i].key))]
        valid == SelectSeq(made, LAMBDA m : m.exc = "")
    IN  IF Len(valid) < Len(made)
        THEN [exc |-> "ValueError", val |-> <<>>, printed |-> 0]
        ELSE [exc |-> "", val |-> [i \in DOMAIN made |-> made[i].val], printed |-> 0]

\* Paper.many_from_path: the outcome, the Papers returned, and the number
\* of warnings printed
many_from_path(bibpath, fatal) ==
    LET loaded == bib_data(bibpath)
        made == [i \in DOMAIN loaded |->
                    PaperInit(loaded[i].entry, NoMeta, Str(loaded[i].key))]
        valid == SelectSeq(made, LAMBDA m : m.exc = "")
    IN  IF fatal
        THEN IF Len(valid) < Len(made)
             THEN [exc |-> "ValueError", val |-> <<>>, printed |-> 0]
             ELSE [exc |-> "", val |-> [i \in DOMAIN made |-> made[i].val],
                   printed |-> 0]
        ELSE [exc |-> "", val |-> [i \in DOMAIN valid |-> valid[i].val],
              printed |-> Len(made) - Len(valid)]

\* the call that is to be made
BatchInit ==
    /\ CmdIdle
    /\ papers = <<>>
    /\ ret \in {[op |-> "call", arg |-> [bibpath |-> b, fatal |-> f], idx |-> 0,
                 exc |-> "", val |-> None] : b \in BibPaths, f \in BOOLEAN}
    /\ lists = [l \in {BASE_NOTES} |-> <<>>]
    /\ disk = [files |-> DocFiles, written |-> <<>>]

\* Paper.many_from_path(bibpath, fatal): papers are the Papers it returns
ManyFromPath ==
    /\ ret.op = "call"
    /\ LET r == many_from_path(ret.arg.bibpath, ret.arg.fatal)
       IN  /\ ret' = [op |-> "many_from_path", arg |-> ret.arg, idx |-> 0,
                      exc |-> r.exc, val |-> [printed |-> r.printed]]
           /\ papers' = r.val
    /\ UNCHANGED <<cmdvars, lists, disk>>

SpecBatch == BatchInit /\ [][ManyFromPath]_vars

(***************************************************************************)
(* The sanitizer on the two kinds of string of the language, the text      *)
(* (unicode) and the byte string (str): papers/paper.py, lines 26-30.      *)
(***************************************************************************)
\* longest string that is given to the sanitizer
MaxTextLen == 2

\* a byte string: s holds its bytes
Bytes(b) == [isNone |-> FALSE, s |-> b, bytes |-> TRUE]

\* unicode(x) decodes a byte string as ASCII, and fails on a byte above 127
UnicodeDecodeError(x) ==
    /\ "bytes" \in DOMAIN x
    /\ \E i \in DOMAIN x.s : x.s[i] > 127

\* str2citekey as a call: it raises what unicode raises, and returns the
\* byte string that encode and sub make
str2citekeyCall(x) ==
    IF UnicodeDecodeError(x) THEN Raises("UnicodeDecodeError")
    ELSE Returns(Bytes(str2citekey(x)))

\* a, @, /, tab, the control character U+0085, e-acute and the fullwidth @
TextChars == {97, 64, 47, 9, 133, 233, 65312}
\* a, @, and the first byte of the UTF-8 form of e-acute
ByteValues == {97, 64, 195}

SanitizerInputs ==
    {Str(t) : t \in StringsUpTo(TextChars, MaxTextLen)} \cup
    {Bytes(b) : b \in StringsUpTo(ByteValues, MaxTextLen)}

\* the call that is to be made
SanitizeInit ==
    /\ CmdIdle
    /\ papers = <<>>
    /\ ret \in {[op |-> "call", arg |-> x, idx |-> 0, exc |-> "", val |-> None] :
                   x \in SanitizerInputs}
    /\ lists = [l \in {BASE_NOTES} |-> <<>>]
    /\ disk = [files |-> DocFiles, written |-> <<>>]

\* str2citekey(s)
Sanitize ==
    /\ ret.op = "call"
    /\ LET r == str2citekeyCall(ret.arg)
       IN  ret' = [op |-> "str2citekey", arg |-> ret.arg, idx |-> 0,
                   exc |-> r.exc, val |-> r.val]
    /\ UNCHANGED <<cmdvars, papers, lists, disk>>

\* str2citekey(key), of the key that str2citekey returned
SanitizeAgain ==
    /\ ret.op = "str2citekey" /\ ret.exc = ""
    /\ LET r == str2citekeyCall(ret.val)
       IN  ret' = [op |-> "str2citekey again", arg |-> ret.val, idx |-> 0,
                   exc |-> r.exc, val |-> r.val]
    /\ UNCHANGED <<cmdvars, papers, lists, disk>>

SanitizeNext ==
    \/ Sanitize
    \/ SanitizeAgain

SpecSanitize == SanitizeInit /\ [][SanitizeNext]_vars

(***************************************************************************)
(* Vocabulary of the properties of the add command.                        *)
(***************************************************************************)
Has(event) == \E i \in DOMAIN log : log[i] = event
Count(event) == Cardinality({i \in DOMAIN log : log[i] = event})
Precedes(a, b) == \E i, j \in DOMAIN log : i < j /\ log[i] = a /\ log[j] = b

UiErrors == {"ui.error:bibfile", "ui.error:doi", "ui.error:isbn", "ui.error:citekey"}
Tracebacks == {"traceback:ValueError", "traceback:IndexError",
               "traceback:IOError", "traceback:OSError"}
ErrorReported == \E i \in DOMAIN log : log[i] \in UiErrors \cup Tracebacks

Ended == pc \in {"exited", "crashed", "done"}
AfterConstruct == pc \in {"docfile", "commit", "push_doc", "remove", "close", "done"}
NothingPushed ==
    /\ ~Has("push_paper") /\ ~Has("push_doc")
    /\ rp.papers = {} /\ rp.docs = {}

\* the citekeys the repository held when the command started
InitialKeys == rp.keys \ {unicode(q.obj.citekey) : q \in rp.papers}

\* the run takes its entry from the editor
EditorRun == args.bibfile = NONE /\ args.doi = NONE /\ args.isbn = NONE
\* the user declined to edit again: the only exit that writes nothing to the log
EditorAborted == EditorRun /\ pc = "exited" /\ log = <<>>

ExplicitCollision ==
    ~args.citekey.isNone /\ unicode(args.citekey) \in InitialKeys

\* C1, as stated: whenever the explicit citekey is already in the repository
\* the run ends in Failed, with an error reported, a non-zero exit status and
\* nothing pushed.
C1_Original ==
    ExplicitCollision =>
        /\ pc # "done" /\ ~AfterConstruct /\ NothingPushed
        /\ Ended => exit_status > 0 /\ ErrorReported

\* C1, amended: with an explicit citekey that the repository already holds,
\* nothing is ever pushed and the run never reaches the construction of the
\* Paper; it ends with a reported error and a non-zero exit status unless the
\* user ended it in the editor loop by declining to edit again.
C1_CollisionIsFatal ==
    ExplicitCollision =>
        /\ pc \notin {"construct", "done", "crashed"} /\ ~AfterConstruct
        /\ NothingPushed
        /\ (pc = "exited" /\ ~EditorAborted) => exit_status > 0 /\ ErrorReported
        /\ (pc = "exited" /\ ~EditorAborted /\ ~Has("ui.error:doi") /\ ~Has("ui.error:isbn"))
              => Has("ui.error:citekey") /\ exit_status = 1

C1_Witness ==
    ExplicitCollision /\ pc = "exited" /\ Has("ui.error:citekey") /\ exit_status = 1

\* C2, as stated: when the content of the explicit bib file fails to decode
\* the run is in Failed with the error reported, and no later state (citekey
\* resolution, construction, commit) is entered.
C2_DecodeFailureOfFileIsFatal ==
    (args.bibfile # NONE /\ Has("get_content") /\ bibentry.isNone) =>
        /\ pc = "exited" /\ exit_status > 0
        /\ Has("ui.error:bibfile")
        /\ NothingPushed

\* C3, as stated: without a bib file and with both a DOI and an ISBN, the
\* ISBN lookup is attempted only if the DOI lookup yielded no entry, and when
\* the DOI lookup succeeds the committed Paper holds the entry of the DOI.
C3_IsbnOnlyAsFallback ==
    (args.bibfile = NONE /\ args.doi # NONE /\ args.isbn # NONE) =>
        /\ Has("isbn2bibtex") => doi_entry.isNone
        /\ (Has("doi2bibtex") /\ ~doi_entry.isNone) =>
              \A q \in rp.papers : q.obj.bibentry = doi_entry

\* C4: without a bib file, a failed DOI or ISBN lookup reports an error; the
\* failed DOI lookup ends the run (status non-zero, nothing pushed) unless an
\* ISBN was supplied, the failed ISBN lookup always ends it; a run that
\* reaches push_paper carries a decoded entry, the one that is committed.
C4_LookupFailure ==
    args.bibfile = NONE =>
        /\ (Has("doi2bibtex") /\ doi_entry.isNone) => Has("ui.error:doi")
        /\ (Has("ui.error:doi") /\ args.isbn = NONE) =>
              pc = "exited" /\ exit_status > 0 /\ NothingPushed
        /\ (Has("ui.error:doi") /\ pc # "exited") => args.isbn # NONE
        /\ (Has("isbn2bibtex") /\ bibentry.isNone) => Has("ui.error:isbn")
        /\ Has("ui.error:isbn") =>
              pc = "exited" /\ exit_status > 0 /\ NothingPushed
        /\ Has("push_paper") =>
              /\ ~bibentry.isNone
              /\ \A q \in rp.papers : q.obj.bibentry = bibentry

\* the DOI lookup failed, the ISBN lookup stood in and the paper was committed
C4_Witness ==
    args.bibfile = NONE /\ Has("ui.error:doi") /\ Has("push_paper") /\ ~bibentry.isNone

\* the placement mode: the explicit flag if given, else the configured default
Mode == IF args.doc_add # NONE THEN args.doc_add ELSE conf

\* C5: the mode is the flag or else the default; the document is copied into
\* the repository iff the mode is copy or move; the original is removed iff
\* the mode is move and the document is no URL, and only after push_doc has
\* returned.
C5_Placement ==
    /\ (AfterConstruct /\ pc # "docfile") => doc_add = Mode
    /\ \A d \in rp.docs : d.copy <=> Mode \in {"copy", "move"}
    /\ Has("remove_file") =>
          /\ Mode = "move" /\ docfile.s # UrlDoc
          /\ Precedes("push_doc:returned", "remove_file")
    /\ (pc \in {"close", "done"} /\ Has("push_doc")) =>
          ((Has("remove_file") /\ docfile.s \notin fs)
              <=> (Mode = "move" /\ docfile.s # UrlDoc))
    /\ fs # {LocalDoc, <<47, 101>>} =>
          Has("remove_file") /\ fs = {LocalDoc, <<47, 101>>} \ {docfile.s}

\* a local document was moved into the repository and its original removed
C5_Witness ==
    /\ pc = "done" /\ Mode = "move" /\ args.doc_add = NONE
    /\ Has("remove_file") /\ docfile.s \notin fs
    /\ \E d \in rp.docs : d.copy

\* C6: the document is the --docfile argument if given, else the one embedded
\* in the entry, else none; one warning is reported when both exist and none
\* otherwise; the warning does not end the run.
C6_ResolveDocument ==
    LET embedded == extract_docfile(bibentry)
        expected == IF ~args.docfile.isNone THEN args.docfile ELSE embedded
        both == ~args.docfile.isNone /\ ~embedded.isNone
        resolved == (AfterConstruct /\ pc # "docfile") \/ Has("push_paper")
    IN  /\ resolved => docfile = expected
        /\ Count("ui.warning:docfile") = IF resolved /\ both THEN 1 ELSE 0
        /\ \A d \in rp.docs : d.docfile = expected.s
        /\ Has("push_doc") => ~expected.isNone
        /\ (pc \in {"close", "done"} /\ ~Has("push_doc")) => expected.isNone
        /\ Has("ui.warning:docfile") => pc = "commit" \/ Has("push_paper")

\* both documents exist: the argument was pushed and the run completed
C6_Witness ==
    /\ pc = "done" /\ Has("ui.warning:docfile")
    /\ ~extract_docfile(bibentry).isNone
    /\ \E d \in rp.docs : d.docfile = args.docfile.s

FailsToDecode(text) ==
    text.kind # "bib" \/ "year" \notin DOMAIN text.entry.fields

C7_State ==
    /\ pc \in {"editor", "ask_unedited", "ask_invalid"} =>
          EditorRun /\ NothingPushed /\ log = <<>>
    /\ pc = "ask_unedited" => bibstr = add_bib /\ ENABLED (AskUnedited /\ pc' = "editor")
    /\ pc = "ask_invalid" =>
          /\ bibstr # add_bib /\ FailsToDecode(bibstr)
          /\ ENABLED (AskInvalid /\ pc' = "editor")
    /\ EditorAborted => NothingPushed
    /\ (EditorRun /\ pc \notin {"start", "editor", "ask_unedited", "ask_invalid"}
          /\ ~EditorAborted) =>
          /\ bibstr # add_bib /\ ~FailsToDecode(bibstr)
          /\ bibentry = bibstr.entry

C7_Step ==
    /\ pc = "editor" =>
          pc' = IF bibstr' = add_bib THEN "ask_unedited"
                ELSE IF FailsToDecode(bibstr') THEN "ask_invalid"
                ELSE "citekey"
    /\ pc \in {"ask_unedited", "ask_invalid"} =>
          \/ pc' = "editor"
          \/ pc' = "exited" /\ rp' = rp /\ log' = log

\* C7: the editor loop asks the user after every unedited submission and
\* after every submission that fails to decode or verify; a yes re-opens the
\* editor, any number of times, a no ends the process with nothing pushed;
\* the loop returns only the entry of a submitted text that differs from the
\* template and decodes and verifies.
C7_EditorLoop == [] C7_State /\ [][C7_Step]_vars

\* the editor was opened at least MaxEdits times before an entry was returned
C7_Witness ==
    EditorRun /\ edits = MaxEdits /\ pc = "citekey" /\ bibentry = bibstr.entry

InvalidExplicit ==
    ~args.citekey.isNone /\ args.citekey.s # str2citekey(args.citekey)

PushedKeysAreSanitized ==
    /\ \A q \in rp.papers : unicode(q.obj.citekey) = str2citekey(q.obj.citekey)
    /\ pc = "commit" => unicode(p.obj.citekey) = str2citekey(p.obj.citekey)

\* C8, as stated: with an explicit citekey that is not sanitizer-valid the
\* process aborts with a non-zero status before Commit, and push_paper is
\* never called with a citekey that differs from its sanitized form.
C8_Original ==
    /\ PushedKeysAreSanitized
    /\ InvalidExplicit =>
          /\ pc # "done" /\ ~AfterConstruct /\ NothingPushed
          /\ Ended => exit_status > 0

\* C8, amended: with an explicit citekey that is not sanitizer-valid the run
\* never gets past the construction of the Paper and pushes nothing; it ends
\* with a non-zero status unless the user ended it in the editor loop by
\* declining to edit again; push_paper is never called with a citekey that
\* differs from its sanitized form.
C8_InvalidExplicitCitekey ==
    /\ PushedKeysAreSanitized
    /\ InvalidExplicit =>
          /\ pc # "done" /\ ~AfterConstruct /\ NothingPushed
          /\ (Ended /\ ~EditorAborted) => exit_status > 0
          /\ pc = "crashed" => Has("traceback:ValueError")

C8_Witness ==
    /\ InvalidExplicit /\ pc = "crashed" /\ exit_status = 1
    /\ log[Len(log)] = "traceback:ValueError" /\ ~bibentry.isNone

(***************************************************************************)
(* Properties of the Paper record.                                         *)
(***************************************************************************)
SanitizerValid(k) == ~k.isNone /\ k.s # <<>> /\ k.s = str2citekey(k)

\* C9, as stated: every Paper that was constructed has a citekey that is
\* set, non-empty and equal to its sanitized form, and the construction
\* fails with InvalidCitekey (ValueError) for every other citekey.
C9_CitekeyInvariant ==
    /\ \A i \in DOMAIN papers : SanitizerValid(papers[i].citekey)
    /\ ret.op = "Paper" => (ret.exc = "ValueError" <=> ~SanitizerValid(ret.arg))
    /\ ret.op = "Paper" => ret.exc \in {"", "ValueError"}

\* C10, as stated: generate_citekey takes the author list if the entry has
\* one, else the editor list; it fails with MissingAuthor (ValueError), and
\* with no other error, when the role is missing or its list is empty;
\* otherwise it returns the sanitized last names of the first person
\* followed by the year, or by nothing when there is no year.
C10_GenerateCitekey ==
    ret.op = "generate_citekey" =>
        LET e == papers[ret.idx].bibentry
            role == IF "author" \in DOMAIN e.persons THEN "author" ELSE "editor"
            missing == role \notin DOMAIN e.persons \/ e.persons[role] = <<>>
            year == IF "year" \in DOMAIN e.fields THEN e.fields["year"] ELSE <<>>
        IN  /\ ret.exc \in {"", "ValueError"}
            /\ ret.exc = "ValueError" <=> missing
            /\ ~missing =>
                  ret.val = Str(str2citekey(Str(Concat(e.persons[role][1].last) \o year)))

(***************************************************************************)
(* The document of a Paper.                                                *)
(***************************************************************************)
DocumentFields(metadata) == {metadata.filename, metadata.extension, metadata.path}

\* full is the absolute form of the path given: it starts at the root; a
\* path given from the root is kept, another one is put under the working
\* directory
AbsoluteFormOf(full, given) ==
    /\ full # <<>> /\ full[1] = 47
    /\ (given[1] = 47 => full = given)
    /\ (given[1] # 47 => full = cwd \o <<47>> \o given)

C11_State ==
    /\ \A i \in DOMAIN papers :
          \/ DocumentFields(papers[i].metadata) = {None}
          \/ None \notin DocumentFields(papers[i].metadata)
    /\ (ret.op = "set_document" /\ ret.exc = "") =>
          LET metadata == papers[ret.idx].metadata
          IN  /\ None \notin DocumentFields(metadata)
              /\ AbsoluteFormOf(metadata.path.s, ret.arg.s)
              /\ has_file(metadata)
              /\ get_file_path(metadata) = Returns(metadata.path)
    /\ ret.op = "set_document" => ret.exc \in {"", "FileNotFound"}
    /\ (ret.op = "get_file_path" /\ papers[ret.idx].metadata.path = None) =>
          ret.exc = "NoDocumentFile"
    /\ (ret.op = "Paper" /\ ret.exc = "") =>
          DocumentFields(papers[ret.idx].metadata) = {None}

\* the metadata of a Paper changes only in a set_document that returns
C11_Step ==
    \A i \in DOMAIN papers :
        papers'[i].metadata # papers[i].metadata =>
            ret'.op = "set_document" /\ ret'.idx = i /\ ret'.exc = ""

\* C11: the fields filename, extension and path of the metadata of a Paper
\* made with the default metadata are all absent or all present; a
\* set_document that returns sets the three, the path to the absolute form of
\* its argument, so that has_file is true and get_file_path returns it; a
\* set_document that fails with FileNotFound changes nothing; get_file_path on
\* a Paper without a document fails with NoDocumentFile.
C11_AllOrNothing == [] C11_State /\ [][C11_Step]_vars

\* set_document has failed on a Paper that has a document, and on one that
\* has none
C11_Witness ==
    /\ ret.op = "set_document" /\ ret.exc = "FileNotFound"
    /\ has_file(papers[ret.idx].metadata)
    /\ \E j \in DOMAIN papers : ~has_file(papers[j].metadata)

(***************************************************************************)
(* The two files of a Paper.                                               *)
(***************************************************************************)
C12_State ==
    /\ (ret.op = "save_to_disc" /\ papers[ret.idx].citekey = None) =>
          ret.exc = "ValueError"
    /\ \A j \in DOMAIN disk.written :
          /\ disk.written[j].citekey # None
          /\ disk.written[j].target = "meta_filepath" =>
                /\ j > 1
                /\ disk.written[j - 1] =
                      [target |-> "bib_filepath", citekey |-> disk.written[j].citekey]

C12_Step ==
    disk'.written # disk.written =>
        /\ ret'.op = "save_to_disc"
        /\ LET paper == papers[ret'.idx]
               bib == [target |-> "bib_filepath", citekey |-> paper.citekey]
               meta == [target |-> "meta_filepath", citekey |-> paper.citekey]
           IN  /\ paper.citekey # None
               /\ ret'.exc # "ValueError"
               /\ disk'.written = disk.written \o
                     (IF ret'.exc = "" THEN <<bib, meta>> ELSE <<bib>>)

\* C12: save_to_disc on a Paper whose citekey is None raises ValueError and
\* writes nothing; on a Paper with a citekey it writes the file of the entry
\* first and the file of the metadata after it.
C12_Persist == [] C12_State /\ [][C12_Step]_vars

\* save_to_disc has failed on a Paper without a citekey after the two files
\* of another Paper were written
C12_Witness ==
    /\ ret.op = "save_to_disc" /\ ret.exc = "ValueError"
    /\ papers[ret.idx].citekey = None
    /\ Len(disk.written) = 2
    /\ disk.written[2].target = "meta_filepath"

(***************************************************************************)
(* check_file.                                                             *)
(***************************************************************************)
\* the document of the Paper is a regular file of the file system
DocumentIsFile(paper, files) ==
    /\ paper.metadata.path # None
    /\ paper.metadata.path.s \in files

\* what holds of the last call as long as no other call is made: files are
\* deleted, never made, between the calls
C16_State ==
    ret.op = "check_file" =>
        /\ ret.exc = ""
        /\ ret.val \in {Bool(TRUE), Bool(FALSE)}
        /\ papers[ret.idx].metadata.path = None => ret.val = Bool(FALSE)
        /\ DocumentIsFile(papers[ret.idx], disk.files) => ret.val = Bool(TRUE)

\* what holds of a call when it returns
C16_Step ==
    (ret' # ret /\ ret'.op = "check_file") =>
        /\ ret'.exc = ""
        /\ ret'.val = Bool(DocumentIsFile(papers[ret'.idx], disk.files))

\* C16: check_file raises nothing and returns a boolean: TRUE when the path
\* of the document of the Paper exists and is a regular file, FALSE in every
\* other case, a path whose file was deleted and a Paper without a document
\* among them.
C16_CheckFile == [] C16_State /\ [][C16_Step]_vars

(***************************************************************************)
(* The default metadata.                                                   *)
(***************************************************************************)
\* the metadata as a reader of the record sees it: the notes by their contents
Observed(metadata) ==
    [filename |-> metadata.filename, extension |-> metadata.extension,
     path |-> metadata.path, notes |-> lists[metadata.notes]]

ObservedAfter(metadata) ==
    [filename |-> metadata.filename, extension |-> metadata.extension,
     path |-> metadata.path, notes |-> lists'[metadata.notes]]

C19_State ==
    /\ Observed(BASE_META) =
          [filename |-> None, extension |-> None, path |-> None, notes |-> <<>>]
    /\ \A i \in DOMAIN papers :
          /\ papers[i].metadata.notes # BASE_META.notes
          /\ \A j \in DOMAIN papers :
                i # j => papers[i].metadata.notes # papers[j].metadata.notes

C19_Step ==
    /\ \A j \in DOMAIN papers :
          ObservedAfter(papers'[j].metadata) # Observed(papers[j].metadata) =>
              ret'.idx = j
    /\ Len(papers') > Len(papers) =>
          ObservedAfter(papers'[Len(papers')].metadata) =
              [filename |-> None, extension |-> None, path |-> None, notes |-> <<>>]

\* C19: BASE_META keeps its three absent fields and its empty notes, and
\* shares nothing with the metadata of a Paper, whatever Papers are made with
\* the default metadata, given documents and given notes; a change of the
\* metadata of one Paper, its notes among them, shows in no other Paper and
\* in no Paper made later.
C19_BaseMetaImmutable == [] C19_State /\ [][C19_Step]_vars

(***************************************************************************)
(* The document named in the entry.  Every step of SpecExtract that        *)
(* changes the state is a call; ret' is its outcome, papers the Papers     *)
(* before it and papers' the Papers after it.                              *)
(***************************************************************************)
\* the candidates of the file field of the entry that are not empty
Candidates(entry) ==
    IF "file" \notin DOMAIN entry.fields THEN <<>>
    ELSE SelectSeq(Split(entry.fields["file"], 58), LAMBDA c : c # <<>>)

\* "/files/a.pdf"
FirstOfTwoFiles == <<47, 102, 105, 108, 101, 115, 47, 97, 46, 112, 100, 102>>

C13_Call ==
    LET entry == papers[ret'.idx].bibentry
        first == Head(Candidates(entry))
    IN  IF Candidates(entry) = <<>>
        THEN ret'.exc = "NoDocumentFile"
        ELSE /\ ret'.exc = ""
             /\ ret'.val = Str(IF first[1] = 47 THEN first ELSE <<47>> \o first)
             /\ ret'.val.s \notin {<<>>, <<47>>}
             /\ entry.fields["file"] = TwoFiles => ret'.val = Str(FirstOfTwoFiles)

\* C13: get_document_file_from_bibdata returns the first candidate of the
\* file field that is not empty, with a '/' put before it when it does not
\* start with one, so "/files/a.pdf" for "files/a.pdf:files/b.pdf"; it raises
\* NoDocumentFile exactly when the field is absent, empty or without such a
\* candidate; it never returns the empty path or the path "/".
C13_Extract == [][C13_Call]_vars

C20_Call ==
    /\ \A i \in DOMAIN papers :
          papers'[i] # papers[i] =>
              /\ ret'.idx = i
              /\ ret'.arg = Bool(TRUE)
              /\ ret'.exc = ""
              /\ papers'[i] =
                    [papers[i] EXCEPT !.bibentry = WithoutField(papers[i].bibentry, "file")]
    /\ ret'.arg = Bool(FALSE) => papers' = papers
    /\ ret'.exc = "NoDocumentFile" => papers' = papers

\* C20: get_document_file_from_bibdata changes the entry only by deleting
\* its file field, and only when remove is true and a path is returned:
\* without remove the entry is unchanged, and when the call raises
\* NoDocumentFile the entry keeps its file field, with or without remove.
C20_EntryFrame == [][C20_Call]_vars

(***************************************************************************)
(* Loading many Papers.                                                    *)
(***************************************************************************)
\* the entries of the source, in its order: those of the file, or those of
\* the bibliographic files of the directory
SourceEntriesOf(bibpath) ==
    LET read == [i \in DOMAIN bibpath.files |->
                    IF bibpath.isdir /\ ~bibpath.files[i].bib THEN <<>>
                    ELSE bibpath.files[i].entries]
    IN  Concat(read)

PaperOf(keyed) ==
    [bibentry |-> keyed.entry, metadata |-> BASE_META, citekey |-> Str(keyed.key)]

\* the key is not its own sanitized form
InvalidKeyed(keyed) == str2citekey(Str(keyed.key)) # keyed.key

\* C14: many_from_path makes one Paper for each entry of the source, under
\* the key the entry has there.  With fatal, an entry whose key the sanitizer
\* changes makes the call fail with ValueError and no Paper is returned.
\* Without fatal, each such entry is skipped with one warning, and the Papers
\* returned are those of the other entries, in the order of the source.
C14_ManyFromPath ==
    ret.op = "many_from_path" =>
        LET source == SourceEntriesOf(ret.arg.bibpath)
            invalid == SelectSeq(source, InvalidKeyed)
            valid == SelectSeq(source, LAMBDA e : ~InvalidKeyed(e))
        IN  IF ret.arg.fatal /\ invalid # <<>>
            THEN ret.exc = "ValueError" /\ papers = <<>>
            ELSE /\ ret.exc = ""
                 /\ papers = [i \in DOMAIN valid |-> PaperOf(valid[i])]
                 /\ ret.val.printed = IF ret.arg.fatal THEN 0 ELSE Len(invalid)

\* without fatal, an entry with an invalid key was skipped between two
\* entries whose Papers are returned
C14_Witness ==
    /\ ret.op = "many_from_path" /\ ~ret.arg.fatal
    /\ ret.val.printed = 1
    /\ Len(papers) = 2
    /\ LET source == SourceEntriesOf(ret.arg.bibpath)
       IN  Len(source) = 3 /\ InvalidKeyed(source[2])

(***************************************************************************)
(* The sanitizer.                                                          *)
(***************************************************************************)
\* no control character, no character beyond ASCII, none of @ ' \ , # } { ~ % /
CitekeySafe(key) ==
    \A i \in DOMAIN key :
        /\ key[i] \notin (0 .. 31) \cup (127 .. 159)
        /\ key[i] <= 127
        /\ key[i] \notin {64, 39, 92, 44, 35, 125, 123, 126, 37, 47}

\* C15: str2citekey returns for every string, what it returns has no
\* control character, no character beyond ASCII and none of the forbidden
\* characters, also when the normal form of a character is a forbidden one,
\* and str2citekey of what it returned is the same key.
C15_Sanitize ==
    ret.op \in {"str2citekey", "str2citekey again"} =>
        /\ ret.exc = ""
        /\ CitekeySafe(ret.val.s)
        /\ ret.op = "str2citekey again" => ret.val = ret.arg

(***************************************************************************)
(* The add command from push_paper on.                                     *)
(***************************************************************************)
\* push_doc was called and raised
PushDocFailed == Has("push_doc") /\ ~Has("push_doc:returned")

C17_State ==
    /\ Count("push_paper") <= 1
    /\ Count("push_doc") <= 1
    /\ Has("push_doc") => Precedes("push_paper", "push_doc") /\ ~docfile.isNone
    /\ (Has("push_paper") /\ pc # "push_doc") => (Has("push_doc") <=> ~docfile.isNone)
    /\ Has("push_paper") => p \in rp.papers /\ unicode(p.obj.citekey) \in rp.keys
    /\ (PushDocFailed \/ Has("traceback:OSError")) => pc = "crashed" /\ p \in rp.papers

\* nothing is taken out of the repository, and a run that has ended on a
\* failure does nothing more
C17_Step ==
    /\ rp.papers \subseteq rp'.papers
    /\ rp.keys \subseteq rp'.keys
    /\ pc = "crashed" => log' = log /\ rp' = rp

\* C17: push_paper is called at most once; push_doc is called at most once,
\* only after push_paper has returned, and exactly when a document was
\* resolved; when push_doc or the removal of the original fails, the Paper
\* that was pushed stays in the repository and nothing is tried again.
C17_PointOfNoReturn == [] C17_State /\ [][C17_Step]_vars

\* push_doc has failed after the Paper was pushed
C17_Witness ==
    /\ pc = "crashed" /\ PushDocFailed
    /\ Has("push_paper") /\ p \in rp.papers

\* C18: the message that the Paper was added is reported after push_paper
\* and, when a document was resolved, after push_doc has returned, so never
\* in a run where push_doc fails; and close is the last call on the
\* repository of every run that reaches the end of the command.
C18_SuccessMessageInDone ==
    /\ Has("ui.message:added") =>
          /\ Precedes("push_paper", "ui.message:added")
          /\ ~docfile.isNone => Precedes("push_doc:returned", "ui.message:added")
    /\ PushDocFailed => ~Has("ui.message:added")
    /\ pc = "done" =>
          /\ Count("close") = 1
          /\ log[Len(log)] = "close"
          /\ Has("ui.message:added")

====
